---- MODULE Spec2Model ----
(***************************************************************************)
(* Model of Track (src/unnamed/part_000): the per-track event store of the *)
(* sequencer.  An event is a JavaScript object; it is modelled as a        *)
(* function from the names of the fields it owns to their values, so that  *)
(* "field absent" is "name not in DOMAIN".  Object.assign, _.isEqual,      *)
(* _.sortBy, _.without and _.difference are modelled by what they do on    *)
(* such objects.                                                           *)
(*                                                                         *)
(* Encodings:                                                              *)
(*  - `value` and `text` payloads are only ever compared, never computed   *)
(*    with; their numerals are written as strings ("100", "80") so that a  *)
(*    text stored into `value` by the name setter stays comparable.        *)
(*  - the track's `channel: number|undefined` uses Undefined for undefined.*)
(*  - every stored event carries a ghost field `ref`, the identity of the  *)
(*    JavaScript object (the ordinal of its insertion).  No code reads or  *)
(*    writes it: the update objects never carry it, so Object.assign and   *)
(*    _.isEqual are unaffected.  It lets properties follow one object      *)
(*    through sorts and updates.                                           *)
(*  - an unbounded recursion (RangeError: maximum call stack size          *)
(*    exceeded) is modelled by a stack of StackDepth nested                *)
(*    updateEndOfTrack frames; when it is exhausted the operation throws,  *)
(*    `overflow` becomes TRUE and the operation never returns.             *)
(***************************************************************************)
EXTENDS Integers, Sequences, FiniteSets, TLC

VARIABLES
  events,       \* Track.events (line 17)
  lastEventId,  \* Track.lastEventId (line 20)
  channel,      \* Track.channel (line 23)
  overflow,     \* TRUE once an operation has thrown a stack overflow
  steps,        \* number of public operations called so far
  allocated,    \* history: the ids handed out by _addEvent, in allocation order
  everIds,      \* history: every id that was present in events after some operation
  lastOp        \* history: the last public operation, its arguments and result

vars == <<events, lastEventId, channel, overflow, steps, allocated, everIds, lastOp>>

\* ---------------------------------------------------------------- bounds
MaxSteps == 3
StackDepth == 3

\* ---------------------------------------------------------------- values
Undefined == -1

Has(e, f) == f \in DOMAIN e

\* Object.assign(target, src): every own field of src overwrites target's
assign(target, src) ==
  [f \in (DOMAIN target) \cup (DOMAIN src) |->
     IF f \in DOMAIN src THEN src[f] ELSE target[f]]

\* _.isEqual on two event objects: same own fields, same values
isEqual(a, b) == a = b

\* the result of a getter: a payload can be a number or a text, so the
\* returned value v is wrapped as <<v>> and undefined is <<>>
NoValue == <<>>

\* mutant of lastValue: the first element is read instead of the last
lastValue_first(arr, prop) ==
  IF Len(arr) = 0 THEN NoValue
  ELSE IF Has(arr[1], prop) THEN <<arr[1][prop]>> ELSE NoValue

\* lastValue: _.last(arr)[prop]; undefined when arr is empty or the last
\* element has no such field
lastValue(arr, prop) ==
  IF Len(arr) = 0 THEN NoValue
  ELSE IF Has(arr[Len(arr)], prop) THEN <<arr[Len(arr)][prop]>> ELSE NoValue

\* index in evs of the first event with this id (0: none); getEventById is
\* _.find, which returns the first match
getEventIndex(evs, id) ==
  IF \E i \in 1..Len(evs) : evs[i].id = id
  THEN CHOOSE i \in 1..Len(evs) :
         /\ evs[i].id = id
         /\ \A j \in 1..(i - 1) : evs[j].id # id
  ELSE 0

\* e.duration || 0
durationOr0(e) == IF Has(e, "duration") THEN e.duration ELSE 0

\* _.chain(events).map(e => e.tick + (e.duration || 0)).max().value(), events non-empty
maxEnd(evs) ==
  CHOOSE m \in {evs[i].tick + durationOr0(evs[i]) : i \in 1..Len(evs)} :
    \A i \in 1..Len(evs) : evs[i].tick + durationOr0(evs[i]) <= m

\* ---------------------------------------------------------------- sort
\* insertion of e behind every element whose tick is not greater: a stable sort step
RECURSIVE insertByTick(_, _)
insertByTick(sorted, e) ==
  IF sorted = <<>> \/ sorted[Len(sorted)].tick <= e.tick
  THEN Append(sorted, e)
  ELSE Append(insertByTick(SubSeq(sorted, 1, Len(sorted) - 1), e), sorted[Len(sorted)])

RECURSIVE sortBy(_)
sortBy(evs) ==
  IF evs = <<>> THEN <<>>
  ELSE insertByTick(sortBy(SubSeq(evs, 1, Len(evs) - 1)), evs[Len(evs)])

\* mutant of sortByTick: the sort is skipped
sortByTick_skipped(evs) == evs

\* Track.sortByTick: this.events = _.sortBy(this.events, "tick") (stable)
sortByTick(evs) == sortBy(evs)

\* ---------------------------------------------------------------- helpers of Track
\* (Array.prototype.filter is SelectSeq: the matching elements, order kept)
_findTrackNameEvent(evs) ==
  LET K(t) == Has(t, "subtype") /\ t.subtype = "trackName" IN SelectSeq(evs, K)

_findProgramChangeEvents(evs) ==
  LET K(t) == Has(t, "subtype") /\ t.subtype = "programChange" IN SelectSeq(evs, K)

_findEndOfTrackEvents(evs) ==
  LET K(t) == Has(t, "subtype") /\ t.subtype = "endOfTrack" IN SelectSeq(evs, K)

_findVolumeEvents(evs) ==
  LET K(t) == /\ Has(t, "subtype") /\ t.subtype = "controller"
              /\ Has(t, "controllerType") /\ t.controllerType = 7
  IN SelectSeq(evs, K)

_findPanEvents(evs) ==
  LET K(t) == /\ Has(t, "subtype") /\ t.subtype = "controller"
              /\ Has(t, "controllerType") /\ t.controllerType = 10
  IN SelectSeq(evs, K)

_findSetTempoEvents(evs) ==
  LET K(t) == Has(t, "subtype") /\ t.subtype = "setTempo" IN SelectSeq(evs, K)

\* ---------------------------------------------------------------- update
\* the result of an operation on the event list
Res(evs, result, ovf) == [events |-> evs, result |-> result, overflow |-> ovf]

\* Track._updateEvent: result is TRUE when the updated object is returned,
\* FALSE when null is returned (unknown id, or nothing would change)
_updateEvent(evs, id, obj) ==
  LET i == getEventIndex(evs, id) IN
  IF i = 0 THEN Res(evs, FALSE, FALSE)
  ELSE LET anObj == evs[i]
           newObj == assign(anObj, obj)
       IN IF isEqual(newObj, anObj) THEN Res(evs, FALSE, FALSE)
          ELSE Res([evs EXCEPT ![i] = newObj], TRUE, FALSE)

RECURSIVE updateEvent(_, _, _, _)

\* mutant of _updateLast: with no matching event the write goes to the last
\* event of the track
_updateLast_anyEvent(evs, arr, obj, depth) ==
  IF Len(arr) > 0
  THEN updateEvent(evs, arr[Len(arr)].id, obj, depth)
  ELSE IF Len(evs) > 0 THEN updateEvent(evs, evs[Len(evs)].id, obj, depth)
  ELSE Res(evs, FALSE, FALSE)

\* Track._updateLast
_updateLast(evs, arr, obj, depth) ==
  IF Len(arr) > 0
  THEN updateEvent(evs, arr[Len(arr)].id, obj, depth)
  ELSE Res(evs, FALSE, FALSE)

\* the endOfTrack setter
set_endOfTrack(evs, tick, depth) ==
  _updateLast(evs, _findEndOfTrackEvents(evs), [tick |-> tick], depth)

\* Track.updateEndOfTrack; depth is the number of stack frames left.  On an
\* empty track the maximum is undefined and there is no endOfTrack event to
\* write it to.
updateEndOfTrack(evs, depth) ==
  IF depth = 0 THEN Res(evs, FALSE, TRUE)
  ELSE IF evs = <<>> THEN Res(evs, FALSE, FALSE)
  ELSE set_endOfTrack(evs, maxEnd(evs), depth - 1)

\* Track.updateEvent
updateEvent(evs, id, obj, depth) ==
  LET r == _updateEvent(evs, id, obj) IN
  IF ~r.result THEN r
  ELSE LET u == updateEndOfTrack(r.events, depth) IN
       IF u.overflow THEN Res(u.events, TRUE, TRUE)
       ELSE Res(sortByTick(u.events), TRUE, FALSE)

\* ---------------------------------------------------------------- remove
\* the sequence without the elements at the positions in idx (reference
\* removal: _.without / _.difference compare objects by identity)
RECURSIVE dropAt(_, _)
dropAt(evs, idx) ==
  IF evs = <<>> THEN <<>>
  ELSE LET rest == dropAt(SubSeq(evs, 1, Len(evs) - 1), idx) IN
       IF Len(evs) \in idx THEN rest ELSE Append(rest, evs[Len(evs)])

\* Track.removeEvent: getEventById, _.without, updateEndOfTrack
removeEvent(evs, id, depth) ==
  updateEndOfTrack(dropAt(evs, {getEventIndex(evs, id)}), depth)

\* Track.removeEvents: ids.map(getEventById), _.difference, updateEndOfTrack
removeEvents(evs, ids, depth) ==
  updateEndOfTrack(
    dropAt(evs, {getEventIndex(evs, ids[k]) : k \in 1..Len(ids)}), depth)

\* ---------------------------------------------------------------- insert
\* mutant of _addEvent: the counter is not advanced
_addEvent_noIncrement(evs, lastId, ch, e) ==
  LET e1 == assign(e, [id |-> lastId, ref |-> lastId])
      e2 == IF Has(e1, "tick") THEN e1 ELSE assign(e1, [tick |-> e1.deltaTime])
      e3 == IF Has(e2, "type") /\ e2.type = "channel"
            THEN assign(e2, [channel |-> ch]) ELSE e2
  IN [events |-> Append(evs, e3), lastEventId |-> lastId, e |-> e3]

\* Track._addEvent: the stored object e, the new list and the new counter.
\* The lookup of lastEvent uses the counter after its increment and sees the
\* pushed event too.
_addEvent(evs, lastId, ch, e) ==
  LET e1 == assign(e, [id |-> lastId, ref |-> lastId])
      lastId1 == lastId + 1
      evs1 == Append(evs, e1)
      k == getEventIndex(evs1, lastId1)
      e2 == IF Has(e1, "tick") THEN e1
            ELSE assign(e1, [tick |-> e1.deltaTime + (IF k # 0 THEN evs1[k].tick ELSE 0)])
      e3 == IF Has(e2, "type") /\ e2.type = "channel"
            THEN assign(e2, [channel |-> ch]) ELSE e2
  IN [events |-> Append(evs, e3), lastEventId |-> lastId1, e |-> e3]

\* Track.didAddEvent
didAddEvent(evs, depth) ==
  LET u == updateEndOfTrack(evs, depth) IN
  IF u.overflow THEN u ELSE Res(sortByTick(u.events), FALSE, FALSE)

\* Track.addEvent
addEvent(evs, lastId, ch, e, depth) ==
  LET a == _addEvent(evs, lastId, ch, e)
      d == didAddEvent(a.events, depth)
  IN [events |-> d.events, lastEventId |-> a.lastEventId,
      overflow |-> d.overflow, ids |-> <<a.e.id>>]

\* events.map(e => this._addEvent(e)): ids are the ids of the returned objects
RECURSIVE _addEvents(_, _, _, _)
_addEvents(evs, lastId, ch, es) ==
  IF es = <<>> THEN [events |-> evs, lastEventId |-> lastId, ids |-> <<>>]
  ELSE LET a == _addEvent(evs, lastId, ch, Head(es))
           r == _addEvents(a.events, a.lastEventId, ch, Tail(es))
       IN [r EXCEPT !.ids = <<a.e.id>> \o @]

\* Track.addEvents
addEvents(evs, lastId, ch, es, depth) ==
  LET a == _addEvents(evs, lastId, ch, es)
      d == didAddEvent(a.events, depth)
  IN [events |-> d.events, lastEventId |-> a.lastEventId,
      overflow |-> d.overflow, ids |-> a.ids]

\* ---------------------------------------------------------------- batch update
\* events.forEach(event => this._updateEvent(event.id, event))
RECURSIVE _updateEvents(_, _)
_updateEvents(evs, list) ==
  IF list = <<>> THEN evs
  ELSE _updateEvents(_updateEvent(evs, Head(list).id, Head(list)).events, Tail(list))

\* Track.updateEvents
updateEvents(evs, list, depth) ==
  LET u == updateEndOfTrack(_updateEvents(evs, list), depth) IN
  IF u.overflow THEN u ELSE Res(sortByTick(u.events), FALSE, FALSE)

\* ---------------------------------------------------------------- channel
\* mutant of changeChannel: the events are not rewritten
changeChannel_trackOnly(evs, c) == evs

\* mutant of changeChannel: every event is rewritten, whatever its type
changeChannel_everyEvent(evs, c) ==
  [i \in 1..Len(evs) |-> assign(evs[i], [channel |-> c])]

\* Track.changeChannel: the rewritten events (the track's channel becomes c)
changeChannel(evs, c) ==
  [i \in 1..Len(evs) |->
     IF Has(evs[i], "type") /\ evs[i].type = "channel"
     THEN assign(evs[i], [channel |-> c]) ELSE evs[i]]

isRhythmTrack(ch) == ch = 9

isConductorTrack(ch) == ch = Undefined

\* ---------------------------------------------------------------- createOrUpdate
sameField(a, b, f) ==
  IF Has(a, f) THEN Has(b, f) /\ a[f] = b[f] ELSE ~Has(b, f)

\* the events createOrUpdate matches: same type, subtype and tick (===)
matching(evs, newEvent) ==
  LET K(e) == /\ sameField(e, newEvent, "type")
              /\ sameField(e, newEvent, "subtype")
              /\ sameField(e, newEvent, "tick")
  IN SelectSeq(evs, K)

\* events.forEach(e => it.updateEvent(e.id, {...newEvent, id: e.id})); an
\* overflow thrown by one update ends the loop
RECURSIVE updateMatched(_, _, _, _)
updateMatched(evs, matched, newEvent, depth) ==
  IF matched = <<>> THEN Res(evs, FALSE, FALSE)
  ELSE LET u == updateEvent(evs, Head(matched).id,
                            assign(newEvent, [id |-> Head(matched).id]), depth)
       IN IF u.overflow THEN u
          ELSE updateMatched(u.events, Tail(matched), newEvent, depth)

\* Track.createOrUpdate; ret is the ref of the returned object (events[0] or
\* the inserted event)
createOrUpdate(evs, lastId, ch, newEvent, depth) ==
  LET matched == matching(evs, newEvent) IN
  IF Len(matched) > 0
  THEN LET u == updateMatched(evs, matched, newEvent, depth) IN
       [events |-> u.events, lastEventId |-> lastId, overflow |-> u.overflow,
        ids |-> <<>>, ret |-> matched[1].ref, matched |-> Len(matched)]
  ELSE LET a == addEvent(evs, lastId, ch, newEvent, depth) IN
       [events |-> a.events, lastEventId |-> a.lastEventId, overflow |-> a.overflow,
        ids |-> a.ids, ret |-> lastId, matched |-> 0]

\* ---------------------------------------------------------------- parameters
\* the getters
get_endOfTrack(evs) ==
  LET v == lastValue(_findEndOfTrackEvents(evs), "tick") IN
  IF v = NoValue THEN Undefined ELSE v[1]

get_name(evs) == lastValue(_findTrackNameEvent(evs), "text")

get_volume(evs) == lastValue(_findVolumeEvents(evs), "value")

get_pan(evs) == lastValue(_findPanEvents(evs), "value")

get_programNumber(evs) == lastValue(_findProgramChangeEvents(evs), "value")

\* the setters of name, volume, pan and programNumber: all write `value`
set_name(evs, value, depth) ==
  _updateLast(evs, _findTrackNameEvent(evs), [value |-> value], depth)

set_volume(evs, value, depth) ==
  _updateLast(evs, _findVolumeEvents(evs), [value |-> value], depth)

set_pan(evs, value, depth) ==
  _updateLast(evs, _findPanEvents(evs), [value |-> value], depth)

set_programNumber(evs, value, depth) ==
  _updateLast(evs, _findProgramChangeEvents(evs), [value |-> value], depth)

\* the tempo setter; bpm is drawn from divisors of 60000000, where the
\* floating-point quotient is the integer quotient
set_tempo(evs, bpm, depth) ==
  _updateLast(evs, _findSetTempoEvents(evs),
              [microsecondsPerBeat |-> 60000000 \div bpm], depth)

\* ---------------------------------------------------------------- inputs
NoteA == [type |-> "channel", subtype |-> "noteOn", tick |-> 0, duration |-> 4]
NoteB == [type |-> "channel", subtype |-> "noteOn", tick |-> 10, duration |-> 2]
NoteA5 == [type |-> "channel", subtype |-> "noteOn", tick |-> 0, channel |-> 5]
NoteD == [type |-> "channel", subtype |-> "noteOn", deltaTime |-> 5]
Note10 == [type |-> "channel", subtype |-> "noteOn", tick |-> 10]
Note30 == [type |-> "channel", subtype |-> "noteOn", tick |-> 30]
Note50 == [type |-> "channel", subtype |-> "noteOn", tick |-> 50]
Vol == [type |-> "channel", subtype |-> "controller", controllerType |-> 7,
        value |-> "100", tick |-> 0]
Pan == [type |-> "channel", subtype |-> "controller", controllerType |-> 10,
        value |-> "64", tick |-> 0]
Prog == [type |-> "channel", subtype |-> "programChange", value |-> "1", tick |-> 0]
Name == [type |-> "meta", subtype |-> "trackName", text |-> "Piano", tick |-> 0]
Name2 == [type |-> "meta", subtype |-> "trackName", text |-> "Grand Piano", tick |-> 0]
Tempo == [type |-> "meta", subtype |-> "setTempo", microsecondsPerBeat |-> 500000,
          tick |-> 0]
Eot == [type |-> "meta", subtype |-> "endOfTrack", tick |-> 30]
Eot0 == [type |-> "meta", subtype |-> "endOfTrack", tick |-> 0]

AddInputs == {NoteA, NoteB, NoteD, Vol, Name, Eot}

AddBatches == {<<Note50, Note10, Note30>>, <<NoteA, NoteB>>,
               <<Eot, Vol, Prog>>, <<Name, Tempo, Pan>>}

CreateInputs == {Name, Name2, NoteA, NoteA5, Eot0}

Ids == 0..2

UpdateFields == {[tick |-> 50], [tick |-> 5], [duration |-> 2], [id |-> 1],
                 [channel |-> 5], [type |-> "channel"], [value |-> "80"]}

UpdateBatches == {<<[id |-> 0, tick |-> 30], [id |-> 1, tick |-> 0]>>,
                  <<[id |-> 0, duration |-> 2], [id |-> 7, tick |-> 1]>>}

RemoveBatches == {<<0, 1>>, <<1, 1, 7>>, <<2, 0>>}

Channels == {0, 9}

\* ---------------------------------------------------------------- the track
idsOf(evs) == {evs[i].id : i \in 1..Len(evs)}

Init ==
  /\ events = <<>>
  /\ lastEventId = 0
  /\ channel = Undefined
  /\ overflow = FALSE
  /\ steps = 0
  /\ allocated = <<>>
  /\ everIds = {}
  /\ lastOp = [name |-> "new"]

\* a public operation is called on a track whose last operation returned
Callable == ~overflow /\ steps < MaxSteps

\* the state after an operation that left evs, lid and ch, allocated ids and
\* threw a stack overflow iff ovf
Commit(evs, lid, ch, ovf, ids, op) ==
  /\ events' = evs
  /\ lastEventId' = lid
  /\ channel' = ch
  /\ overflow' = ovf
  /\ steps' = steps + 1
  /\ allocated' = allocated \o ids
  /\ everIds' = everIds \cup idsOf(evs)
  /\ lastOp' = op

AddEvent ==
  /\ Callable
  /\ \E e \in AddInputs :
       LET r == addEvent(events, lastEventId, channel, e, StackDepth) IN
       Commit(r.events, r.lastEventId, channel, r.overflow, r.ids,
              [name |-> "addEvent", arg |-> <<e>>, ids |-> r.ids, base |-> lastEventId])

AddEvents ==
  /\ Callable
  /\ \E es \in AddBatches :
       LET r == addEvents(events, lastEventId, channel, es, StackDepth) IN
       Commit(r.events, r.lastEventId, channel, r.overflow, r.ids,
              [name |-> "addEvents", arg |-> es, ids |-> r.ids, base |-> lastEventId])

UpdateEvent ==
  /\ Callable
  /\ \E id \in Ids, obj \in UpdateFields :
       LET r == updateEvent(events, id, obj, StackDepth) IN
       Commit(r.events, lastEventId, channel, r.overflow, <<>>,
              [name |-> "updateEvent", id |-> id, obj |-> obj, result |-> r.result])

UpdateEvents ==
  /\ Callable
  /\ \E list \in UpdateBatches :
       LET r == updateEvents(events, list, StackDepth) IN
       Commit(r.events, lastEventId, channel, r.overflow, <<>>,
              [name |-> "updateEvents"])

RemoveEvent ==
  /\ Callable
  /\ \E id \in Ids :
       LET r == removeEvent(events, id, StackDepth) IN
       Commit(r.events, lastEventId, channel, r.overflow, <<>>,
              [name |-> "removeEvent", id |-> id])

RemoveEvents ==
  /\ Callable
  /\ \E ids \in RemoveBatches :
       LET r == removeEvents(events, ids, StackDepth) IN
       Commit(r.events, lastEventId, channel, r.overflow, <<>>,
              [name |-> "removeEvents", ids |-> ids])

CreateOrUpdate ==
  /\ Callable
  /\ \E e \in CreateInputs :
       LET r == createOrUpdate(events, lastEventId, channel, e, StackDepth) IN
       Commit(r.events, r.lastEventId, channel, r.overflow, r.ids,
              [name |-> "createOrUpdate", arg |-> e, ret |-> r.ret,
               matched |-> r.matched])

ChangeChannel ==
  /\ Callable
  /\ \E c \in Channels :
       Commit(changeChannel(events, c), lastEventId, c, FALSE, <<>>,
              [name |-> "changeChannel", c |-> c])

SetName ==
  /\ Callable
  /\ LET r == set_name(events, "Organ", StackDepth) IN
     Commit(r.events, lastEventId, channel, r.overflow, <<>>, [name |-> "set name"])

SetVolume ==
  /\ Callable
  /\ LET r == set_volume(events, "80", StackDepth) IN
     Commit(r.events, lastEventId, channel, r.overflow, <<>>, [name |-> "set volume"])

SetPan ==
  /\ Callable
  /\ LET r == set_pan(events, "32", StackDepth) IN
     Commit(r.events, lastEventId, channel, r.overflow, <<>>, [name |-> "set pan"])

SetProgramNumber ==
  /\ Callable
  /\ LET r == set_programNumber(events, "5", StackDepth) IN
     Commit(r.events, lastEventId, channel, r.overflow, <<>>,
            [name |-> "set programNumber"])

SetTempo ==
  /\ Callable
  /\ LET r == set_tempo(events, 60, StackDepth) IN
     Commit(r.events, lastEventId, channel, r.overflow, <<>>, [name |-> "set tempo"])

SetEndOfTrack ==
  /\ Callable
  /\ LET r == set_endOfTrack(events, 100, StackDepth) IN
     Commit(r.events, lastEventId, channel, r.overflow, <<>>,
            [name |-> "set endOfTrack"])

Next ==
  \/ AddEvent
  \/ AddEvents
  \/ UpdateEvent
  \/ UpdateEvents
  \/ RemoveEvent
  \/ RemoveEvents
  \/ CreateOrUpdate
  \/ ChangeChannel
  \/ SetName
  \/ SetVolume
  \/ SetPan
  \/ SetProgramNumber
  \/ SetTempo
  \/ SetEndOfTrack

Spec == Init /\ [][Next]_vars

\* ---------------------------------------------------------------- properties
\* every operation called so far has returned
Returned == ~overflow

Sorted(evs) == \A i \in 1..(Len(evs) - 1) : evs[i].tick <= evs[i + 1].tick

\* e[f], undefined when e has no field f (numeric fields)
get(e, f) == IF Has(e, f) THEN e[f] ELSE Undefined

isChannelEvent(e) == Has(e, "type") /\ e.type = "channel"

ticksOf(evs) == [i \in 1..Len(evs) |-> evs[i].tick]

refsOf(evs) == [i \in 1..Len(evs) |-> evs[i].ref]

\* C1: once every operation called so far has returned, events is sorted
\* non-decreasing by tick.
C1_SortedAfterEveryMutation == Returned => Sorted(events)

\* C1 witness: ticks [50, 10, 30] inserted into the fresh track are stored as
\* [10, 30, 50], with the ids 1, 2, 0 of their insertion order.
C1_Witness ==
  /\ Returned
  /\ lastOp.name = "addEvents"
  /\ lastOp.arg = <<Note50, Note10, Note30>>
  /\ ticksOf(events) = <<10, 30, 50>>
  /\ refsOf(events) = <<1, 2, 0>>

\* C2 (the claim as stated): after any mutation the endOfTrack getter equals
\* the maximum of tick + (duration or 0) over all events, and it is undefined
\* exactly when the track has no events.
C2_EndOfTrackIsMaxEnd ==
  Returned =>
    IF events = <<>> THEN get_endOfTrack(events) = Undefined
    ELSE get_endOfTrack(events) = maxEnd(events)

\* C3 (the claim as stated): the ids of the stored events are pairwise
\* distinct, and every event still has the id it was given at insertion.
C3_IdsDistinctAndNeverChanged ==
  Returned =>
    /\ \A i, j \in 1..Len(events) : i # j => events[i].id # events[j].id
    /\ \A i \in 1..Len(events) : events[i].id = events[i].ref

\* the event of the track that is the object with this reference
byRef(evs, ref) == evs[CHOOSE i \in 1..Len(evs) : evs[i].ref = ref]

\* C4: the ids handed out are strictly increasing in allocation order (on the
\* fresh track they are 0, 1, 2, ...), whatever the ticks; addEvent and
\* addEvents give their k-th input element the k-th id they allocate, and the
\* object returned for it is stored under that id.
C4_IdsIncreaseInAllocationOrder ==
  /\ \A i, j \in 1..Len(allocated) : i < j => allocated[i] < allocated[j]
  /\ \A k \in 1..Len(allocated) : allocated[k] = k - 1
  /\ (Returned /\ lastOp.name \in {"addEvent", "addEvents"}) =>
       /\ Len(lastOp.ids) = Len(lastOp.arg)
       /\ \A k \in 1..Len(lastOp.ids) :
            /\ lastOp.ids[k] = lastOp.base + k - 1
            /\ \E i \in 1..Len(events) : events[i].ref = lastOp.ids[k]
            /\ byRef(events, lastOp.ids[k]).id = lastOp.ids[k]
            /\ byRef(events, lastOp.ids[k]).subtype = lastOp.arg[k].subtype
            /\ (Has(lastOp.arg[k], "tick") /\ lastOp.arg[k].subtype # "endOfTrack")
                 => byRef(events, lastOp.ids[k]).tick = lastOp.arg[k].tick

\* C4 witness: a batch with ticks [50, 10, 30] inserted after an earlier
\* insert and a removal gets the next three ids in input order.
C4_Witness ==
  /\ Returned
  /\ lastOp.name = "addEvents"
  /\ lastOp.arg = <<Note50, Note10, Note30>>
  /\ lastOp.base > 0
  /\ Len(events) < Len(allocated)
  /\ lastOp.ids = <<lastOp.base, lastOp.base + 1, lastOp.base + 2>>

\* C5 (the claim as stated): the id counter is strictly greater than every
\* id that is or ever was present in the track.
C5_CounterExceedsEveryId ==
  Returned => \A id \in everIds \cup idsOf(events) : id < lastEventId

\* C6 (the claim as stated): after every public mutation every event of type
\* "channel" has its channel field equal to the track's channel.
C6_ChannelEventsMirrorTrackChannel ==
  Returned =>
    \A i \in 1..Len(events) :
      isChannelEvent(events[i]) => get(events[i], "channel") = channel

\* C7: right after changeChannel(c) the track's channel is c, every event of
\* type "channel" has channel c, and isRhythmTrack holds exactly when c = 9.
C7_ChangeChannelPropagates ==
  (Returned /\ lastOp.name = "changeChannel") =>
    /\ channel = lastOp.c
    /\ \A i \in 1..Len(events) :
         isChannelEvent(events[i]) =>
           Has(events[i], "channel") /\ events[i].channel = lastOp.c
    /\ isRhythmTrack(channel) <=> (lastOp.c = 9)

\* C7 witness: changeChannel(9) on a track holding three channel events and
\* one meta event.
C7_Witness ==
  /\ Returned
  /\ lastOp.name = "changeChannel"
  /\ lastOp.c = 9
  /\ isRhythmTrack(channel)
  /\ Len(events) = 4
  /\ Cardinality({i \in 1..Len(events) : isChannelEvent(events[i])}) = 3

\* a without its channel field
withoutChannel(e) == [f \in (DOMAIN e) \ {"channel"} |-> e[f]]

\* C8: a changeChannel step changes nothing but the track's channel and the
\* channel field of the events of type "channel": no event is added, removed
\* or moved, the other events keep every field, and ids, ticks and the id
\* counter are unchanged.
C8_ChangeChannelFrame ==
  [][(lastOp'.name = "changeChannel" /\ steps' = steps + 1) =>
       /\ lastEventId' = lastEventId
       /\ allocated' = allocated
       /\ overflow' = overflow
       /\ Len(events') = Len(events)
       /\ \A i \in 1..Len(events) :
            /\ events'[i].ref = events[i].ref
            /\ events'[i].id = events[i].id
            /\ events'[i].tick = events[i].tick
            /\ withoutChannel(events'[i]) = withoutChannel(events[i])
            /\ ~isChannelEvent(events[i]) => events'[i] = events[i]]_vars

\* C8 witness: changeChannel(0) has run on a track that holds a meta event
\* and a channel event whose channel it rewrote.
C8_Witness ==
  /\ Returned
  /\ lastOp.name = "changeChannel"
  /\ lastOp.c = 0
  /\ \E i, j \in 1..Len(events) :
       /\ ~isChannelEvent(events[i])
       /\ isChannelEvent(events[j]) /\ events[j].channel = 0
       /\ events[i].tick = events[j].tick

\* C9 (the claim as stated): from every state the track can reach, for
\* every id and every field set, a second updateEvent(id, fields) leaves the
\* store as the first left it and is a no-op: it returns null, so nothing is
\* recomputed.
C9_UpdateIdempotent ==
  Returned =>
    \A id \in Ids, obj \in UpdateFields :
      LET r1 == updateEvent(events, id, obj, StackDepth)
          r2 == updateEvent(r1.events, id, obj, StackDepth)
      IN ~r1.overflow =>
           /\ ~r2.overflow
           /\ r2.events = r1.events
           /\ ~r2.result

\* the positions of the events with the (type, subtype, tick) of candidate c
keyed(evs, c) ==
  {i \in 1..Len(evs) : /\ sameField(evs[i], c, "type")
                       /\ sameField(evs[i], c, "subtype")
                       /\ sameField(evs[i], c, "tick")}

\* C10 (the claim as stated): from every state the track can reach, for any
\* two candidates with the same (type, subtype, tick), createOrUpdate of the
\* first and then of the second leaves exactly one stored event with that
\* key; it has the id of the event the first call returned and the fields of
\* the second candidate.
C10_CreateOrUpdateDedups ==
  Returned =>
    \A c1, c2 \in CreateInputs :
      (c1.type = c2.type /\ c1.subtype = c2.subtype /\ c1.tick = c2.tick) =>
        LET r1 == createOrUpdate(events, lastEventId, channel, c1, StackDepth)
            r2 == createOrUpdate(r1.events, r1.lastEventId, channel, c2, StackDepth)
        IN (~r1.overflow /\ ~r2.overflow) =>
             /\ Cardinality(keyed(r2.events, c2)) = 1
             /\ \A i \in keyed(r2.events, c2) :
                  /\ r2.events[i].id = byRef(r1.events, r1.ret).id
                  /\ \A f \in DOMAIN c2 : r2.events[i][f] = c2[f]

\* the events of evs whose id is none of ids, order kept
survivors(evs, ids) ==
  LET K(e) == \A k \in 1..Len(ids) : e.id # ids[k] IN SelectSeq(evs, K)

\* C11 (the claim as stated): from every state the track can reach, for
\* every id list, removeEvents(ids) leaves exactly the events whose id is not
\* in ids, in their previous order and with their ids, sorted by tick and
\* with the end-of-track value equal to the maximum of tick + duration
\* (undefined exactly on the empty track).
C11_RemoveEventsExact ==
  Returned =>
    \A ids \in RemoveBatches :
      LET r == removeEvents(events, ids, StackDepth) IN
      ~r.overflow =>
        /\ refsOf(r.events) = refsOf(survivors(events, ids))
        /\ \A i \in 1..Len(r.events) :
             r.events[i].id = survivors(events, ids)[i].id
        /\ Sorted(r.events)
        /\ IF r.events = <<>> THEN get_endOfTrack(r.events) = Undefined
           ELSE get_endOfTrack(r.events) = maxEnd(r.events)

\* C12 (the claim as stated): on a track with a trackName event, setting the
\* name writes the text of the last trackName event, so that the name read
\* next is the value written, and no event is created.
C12_SetNameThenGetName ==
  (Returned /\ Len(_findTrackNameEvent(events)) > 0) =>
    LET r == set_name(events, "Organ", StackDepth) IN
    ~r.overflow =>
      /\ get_name(r.events) = <<"Organ">>
      /\ Len(r.events) = Len(events)

\* the setter and getter of parameter p on the event list
setParam(p, evs, v) ==
  CASE p = "volume" -> set_volume(evs, v, StackDepth)
    [] p = "pan" -> set_pan(evs, v, StackDepth)
    [] p = "programNumber" -> set_programNumber(evs, v, StackDepth)

getParam(p, evs) ==
  CASE p = "volume" -> get_volume(evs)
    [] p = "pan" -> get_pan(evs)
    [] p = "programNumber" -> get_programNumber(evs)
    [] p = "name" -> get_name(evs)

matchesOf(p, evs) ==
  CASE p = "volume" -> _findVolumeEvents(evs)
    [] p = "pan" -> _findPanEvents(evs)
    [] p = "programNumber" -> _findProgramChangeEvents(evs)
    [] p = "name" -> _findTrackNameEvent(evs)
    [] p = "tempo" -> _findSetTempoEvents(evs)
    [] p = "endOfTrack" -> _findEndOfTrackEvents(evs)

\* C13 (the claim as stated): for volume, pan and programNumber, on a track
\* with a matching event, setting the parameter to v changes only the value
\* field of the last matching event, creates no event, leaves every other
\* event as it was, and the parameter read next is v.
C13_SetParamWritesLastMatch ==
  Returned =>
    \A p \in {"volume", "pan", "programNumber"}, v \in {"80", "5"} :
      Len(matchesOf(p, events)) > 0 =>
        LET r == setParam(p, events, v)
            last == matchesOf(p, events)[Len(matchesOf(p, events))]
        IN ~r.overflow =>
             /\ Len(r.events) = Len(events)
             /\ getParam(p, r.events) = <<v>>
             /\ \A i \in 1..Len(events) :
                  r.events[i] =
                    IF events[i].ref = last.ref
                    THEN assign(events[i], [value |-> v]) ELSE events[i]

\* the parameter a setter step writes
paramOf(op) ==
  CASE op = "set name" -> "name"
    [] op = "set volume" -> "volume"
    [] op = "set pan" -> "pan"
    [] op = "set programNumber" -> "programNumber"
    [] op = "set tempo" -> "tempo"
    [] op = "set endOfTrack" -> "endOfTrack"

SetterOps == {"set name", "set volume", "set pan", "set programNumber",
              "set tempo", "set endOfTrack"}

\* C14: a setter step on a track with no event matching its parameter is
\* dropped: it returns, events and the id counter are unchanged (so no event
\* is created), and the getter of volume, pan, programNumber, name and
\* endOfTrack is undefined afterwards.
C14_SetWithoutMatchIsDropped ==
  [][(/\ steps' = steps + 1
      /\ lastOp'.name \in SetterOps
      /\ Len(matchesOf(paramOf(lastOp'.name), events)) = 0) =>
       /\ events' = events
       /\ lastEventId' = lastEventId
       /\ allocated' = allocated
       /\ ~overflow'
       /\ paramOf(lastOp'.name) \in {"name", "volume", "pan", "programNumber"}
            => getParam(paramOf(lastOp'.name), events') = NoValue
       /\ paramOf(lastOp'.name) = "endOfTrack"
            => get_endOfTrack(events') = Undefined]_vars

\* C14 witness: volume = 80 was set on a track that holds events, none of
\* them a controller 7 event; the volume is still undefined.
C14_Witness ==
  /\ Returned
  /\ lastOp.name = "set volume"
  /\ Len(events) > 0
  /\ Len(_findVolumeEvents(events)) = 0
  /\ get_volume(events) = NoValue

\* the predicate and the field of parameter p (the table of the getters)
matchesParam(p, e) ==
  CASE p = "volume" -> /\ Has(e, "subtype") /\ e.subtype = "controller"
                       /\ Has(e, "controllerType") /\ e.controllerType = 7
    [] p = "pan" -> /\ Has(e, "subtype") /\ e.subtype = "controller"
                    /\ Has(e, "controllerType") /\ e.controllerType = 10
    [] p = "programNumber" -> Has(e, "subtype") /\ e.subtype = "programChange"
    [] p = "name" -> Has(e, "subtype") /\ e.subtype = "trackName"

fieldOf(p) == IF p = "name" THEN "text" ELSE "value"

\* C15: in every state the track reaches, the getter of volume, pan,
\* programNumber and name returns the field of the matching event with the
\* highest tick, among equal ticks the one last in the store, and undefined
\* (also for a missing field) if no event matches.
C15_GetterReadsHighestTickMatch ==
  Returned =>
    \A p \in {"volume", "pan", "programNumber", "name"} :
      LET M == {i \in 1..Len(events) : matchesParam(p, events[i])} IN
      IF M = {} THEN getParam(p, events) = NoValue
      ELSE \E i \in M :
             /\ \A j \in M : events[j].tick <= events[i].tick
             /\ \A j \in M : events[j].tick = events[i].tick => j <= i
             /\ getParam(p, events) =
                  IF Has(events[i], fieldOf(p)) THEN <<events[i][fieldOf(p)]>>
                  ELSE NoValue

\* C15 witness: two trackName events at different ticks with different
\* texts, the first inserted one now at the higher tick; the name read is
\* its text.
C15_Witness ==
  /\ Returned
  /\ \E i, j \in 1..Len(events) :
       /\ i < j
       /\ matchesParam("name", events[i]) /\ matchesParam("name", events[j])
       /\ events[i].tick < events[j].tick
       /\ events[i].ref > events[j].ref
       /\ events[i].text # events[j].text
       /\ get_name(events) = <<events[j].text>>

\* C16 (the claim as stated): from every state the track reaches, updateEvent
\* with an id that no event has returns null and changes nothing, and
\* removeEvent / removeEvents with only such ids change nothing either; none
\* of them throws.
C16_UnknownIdIsNoOp ==
  Returned =>
    /\ \A id \in Ids \cup {7} :
         id \notin idsOf(events) =>
           /\ \A obj \in UpdateFields :
                updateEvent(events, id, obj, StackDepth) = Res(events, FALSE, FALSE)
           /\ removeEvent(events, id, StackDepth).events = events
           /\ ~removeEvent(events, id, StackDepth).overflow
    /\ \A ids \in RemoveBatches \cup {<<7, 7>>} :
         (\A k \in 1..Len(ids) : ids[k] \notin idsOf(events)) =>
           /\ removeEvents(events, ids, StackDepth).events = events
           /\ ~removeEvents(events, ids, StackDepth).overflow

isEndOfTrackEvent(e) == Has(e, "subtype") /\ e.subtype = "endOfTrack"

\* the event removeEvent(id) removes is no endOfTrack event (or there is none)
removesNoEndOfTrack(evs, id) ==
  getEventIndex(evs, id) = 0 \/ ~isEndOfTrackEvent(evs[getEventIndex(evs, id)])

\* C20 (the claim as stated): in every state the track reaches that holds an
\* endOfTrack event, removeEvent and removeEvents of events other than
\* endOfTrack events leave the end-of-track value as it was.
C20_RemovalKeepsEndOfTrack ==
  (Returned /\ Len(_findEndOfTrackEvents(events)) > 0) =>
    /\ \A id \in Ids :
         LET r == removeEvent(events, id, StackDepth) IN
         (removesNoEndOfTrack(events, id) /\ ~r.overflow) =>
           get_endOfTrack(r.events) = get_endOfTrack(events)
    /\ \A ids \in RemoveBatches :
         LET r == removeEvents(events, ids, StackDepth) IN
         ((\A k \in 1..Len(ids) : removesNoEndOfTrack(events, ids[k])) /\ ~r.overflow) =>
           get_endOfTrack(r.events) = get_endOfTrack(events)

\* C17 (the claim as stated): every public operation terminates from every
\* state the track reaches; the recursion updateEvent -> updateEndOfTrack ->
\* endOfTrack setter -> _updateLast -> updateEvent reaches a fixed point, so no
\* call ends in a stack overflow.
C17_EveryOperationReturns == ~overflow

\* the stored event inserted last: the one with the highest insertion mark
previouslyInserted(evs) ==
  CHOOSE k \in 1..Len(evs) : \A j \in 1..Len(evs) : evs[j].ref <= evs[k].ref

\* C18 (the claim as stated): an event inserted without a tick gets its
\* deltaTime plus the tick of the previously inserted event, and its deltaTime
\* alone only when no event precedes it.
C18_TickFromPrecedingEvent ==
  Returned =>
    LET e == _addEvent(events, lastEventId, channel, NoteD).e IN
    e.tick = IF events = <<>> THEN NoteD.deltaTime
             ELSE NoteD.deltaTime + events[previouslyInserted(events)].tick

\* ---------------------------------------------------------------- call counts
\* how often an operation runs sortByTick and updateEndOfTrack
Calls(s, r) == [sorts |-> s, recomputes |-> r]

plus(a, b) == Calls(a.sorts + b.sorts, a.recomputes + b.recomputes)

RECURSIVE calls_updateEvent(_, _, _, _)

\* Track.updateEndOfTrack: one recomputation, and what the endOfTrack setter's
\* _updateLast -> updateEvent runs when there is an endOfTrack event
calls_updateEndOfTrack(evs, depth) ==
  LET arr == _findEndOfTrackEvents(evs) IN
  IF depth = 0 THEN Calls(0, 0)
  ELSE IF evs = <<>> \/ Len(arr) = 0 THEN Calls(0, 1)
  ELSE plus(Calls(0, 1),
            calls_updateEvent(evs, arr[Len(arr)].id, [tick |-> maxEnd(evs)], depth - 1))

\* Track.updateEvent: nothing when _updateEvent returns null, else
\* updateEndOfTrack and one sort
calls_updateEvent(evs, id, obj, depth) ==
  LET r == _updateEvent(evs, id, obj) IN
  IF ~r.result THEN Calls(0, 0)
  ELSE plus(calls_updateEndOfTrack(r.events, depth), Calls(1, 0))

\* Track.addEvents: didAddEvent after the inserts
calls_addEvents(evs, lastId, ch, es, depth) ==
  plus(calls_updateEndOfTrack(_addEvents(evs, lastId, ch, es).events, depth), Calls(1, 0))

\* Track.updateEvents: updateEndOfTrack and sortByTick after the updates
calls_updateEvents(evs, list, depth) ==
  plus(calls_updateEndOfTrack(_updateEvents(evs, list), depth), Calls(1, 0))

\* the transaction of createOrUpdate: one updateEvent per matched event
RECURSIVE calls_updateMatched(_, _, _, _)
calls_updateMatched(evs, matched, newEvent, depth) ==
  IF matched = <<>> THEN Calls(0, 0)
  ELSE LET obj == assign(newEvent, [id |-> Head(matched).id])
           u == updateEvent(evs, Head(matched).id, obj, depth)
       IN plus(calls_updateEvent(evs, Head(matched).id, obj, depth),
               IF u.overflow THEN Calls(0, 0)
               ELSE calls_updateMatched(u.events, Tail(matched), newEvent, depth))

\* C19 (the claim as stated): a batched mutation that returns -- addEvents,
\* updateEvents, the transaction of createOrUpdate over several matches -- has
\* run the tick sort exactly once and the end-of-track recomputation exactly
\* once.
C19_BatchSortsAndRecomputesOnce ==
  Returned =>
    /\ \A es \in AddBatches :
         ~addEvents(events, lastEventId, channel, es, StackDepth).overflow =>
           calls_addEvents(events, lastEventId, channel, es, StackDepth) = Calls(1, 1)
    /\ \A list \in UpdateBatches :
         ~updateEvents(events, list, StackDepth).overflow =>
           calls_updateEvents(events, list, StackDepth) = Calls(1, 1)
    /\ \A newEvent \in CreateInputs :
         LET matched == matching(events, newEvent) IN
         (Len(matched) > 1
            /\ ~updateMatched(events, matched, newEvent, StackDepth).overflow) =>
           calls_updateMatched(events, matched, newEvent, StackDepth) = Calls(1, 1)

====
